---- MODULE Spec2Model ----
(***************************************************************************)
(* State-machine model of the tower-defense game of src/src/main.rs.       *)
(*                                                                         *)
(* f32 values (coordinates, speeds, ranges, frame time) are fixed-point    *)
(* integers: the f32 value v is the integer v * Scale.  Every f32 value    *)
(* the model uses is a multiple of 1/Scale, so sums, differences and the   *)
(* products speed * time_since_last_frame() are exact; f32 rounding is not *)
(* modelled.  i32 values (resources, lives, hit points, cost, damage,      *)
(* reward) are integers; the bounds keep them far from the i32 limits.     *)
(***************************************************************************)
EXTENDS Integers, Sequences, FiniteSets, TLC

VARIABLES
    resources,        \* GameState.resources
    lives,            \* GameState.lives
    towers,           \* GameState.towers
    enemies,          \* GameState.enemies
    camera_position,  \* GameState.camera_position
    tower_types,      \* Game.tower_types
    enemy_types,      \* Game.enemy_types
    event,            \* the event main's loop handled last: a key, or Update
    outcome,          \* what the last win/loss check of Game::update printed
    ticks,            \* number of update events delivered so far
    dt,               \* UpdateArgs.dt of the update event being handled (0: none)
    wave,             \* the local wave of the last GameState::update (0: none yet)
    pc                \* position of the program in main / Game::update

vars == <<resources, lives, towers, enemies, camera_position,
          tower_types, enemy_types, event, outcome, ticks, dt, wave, pc>>

\* The fields of GameState.
state == <<resources, lives, towers, enemies, camera_position>>

----------------------------------------------------------------------------
(* Bounds of the exploration *)

\* Update events delivered in one run.
MaxTicks == 4

\* Update events delivered in one run in which the camera is never moved.
MaxLongTicks == 12

\* The initial lives tried for the win/loss check are -LivesSpread..LivesSpread
\* and the 10 of GameState::new.
LivesSpread == 1

\* The camera is kept within MaxCam camera steps of the origin, at y >= 0.
MaxCam == 1

\* Towers placed in one run.
MaxTowers == 2

\* The elapsed times an update event carries are 1..MaxDt times the nominal
\* frame time of 0.01 s.
MaxDt == 2

----------------------------------------------------------------------------
(* f32 as fixed point *)

\* The integer that stands for the f32 value 1.0.
Scale == 200

\* The f32 value n (a whole number).
F(n) == n * Scale

\* The f32 product a * b.
FMul(a, b) == (a * b) \div Scale

CAMERA_SPEED == F(1)

time_since_last_frame == Scale \div 100

----------------------------------------------------------------------------
(* Geometry *)

Point_new(x, y) == [x |-> x, y |-> y]

\* Point::distance_to returns sqrt(dx^2 + dy^2); the model keeps the square,
\* and every comparison with it is made on squares (sqrt is monotone).
distance_to_sq(a, b) == (a.x - b.x) * (a.x - b.x) + (a.y - b.y) * (a.y - b.y)

\* A faulty variant of in_range: the range test made inclusive.
in_range_inclusive(tower, enemy) ==
    /\ tower.tower_type.range >= 0
    /\ distance_to_sq(tower.position, enemy.position)
           <= tower.tower_type.range * tower.tower_type.range

\* tower.position.distance_to(&enemy.position) < tower.tower_type.range
in_range(tower, enemy) ==
    /\ tower.tower_type.range > 0
    /\ distance_to_sq(tower.position, enemy.position)
           < tower.tower_type.range * tower.tower_type.range

----------------------------------------------------------------------------
(* Catalogs *)

Goblin == [name |-> "Goblin", max_hit_points |-> 10, speed |-> F(2), reward |-> 20]

Orc == [name |-> "Orc", max_hit_points |-> 20, speed |-> F(3) \div 2, reward |-> 30]

ArcherTower ==
    [name |-> "Archer Tower", cost |-> 50, damage |-> 5, range |-> F(100),
     rate_of_fire |-> F(1)]

MageTower ==
    [name |-> "Mage Tower", cost |-> 75, damage |-> 10, range |-> F(200),
     rate_of_fire |-> F(2)]

\* The catalogs main installs.
MainCatalog ==
    [tower_types |-> <<ArcherTower, MageTower>>, enemy_types |-> <<Goblin, Orc>>]

\* main's catalogs, each in the other order: the tower placed is the Mage
\* Tower and the first waves are of Goblins, which one Mage Tower kills in
\* the tick they spawn.
SwappedCatalog ==
    [tower_types |-> <<MageTower, ArcherTower>>, enemy_types |-> <<Orc, Goblin>>]

\* A catalog whose tower range (2.0) and enemy step (100.0 * 0.01 = 1.0) are
\* of the size of a camera step, so that enemies enter, touch and leave the
\* range of a tower within a few ticks.
Runner == [name |-> "Runner", max_hit_points |-> 3, speed |-> F(100), reward |-> 7]

Ballista ==
    [name |-> "Ballista", cost |-> 40, damage |-> 1, range |-> F(2),
     rate_of_fire |-> F(2)]

SmallCatalog == [tower_types |-> <<Ballista>>, enemy_types |-> <<Runner>>]

\* The catalogs a run is configured with: main's, and two more inputs.
Catalogs == {MainCatalog, SwappedCatalog, SmallCatalog}

\* main's tower types in main's order (the tower placed is the Archer Tower:
\* cost 50, damage 5, range 100.0) and main's enemy types in the other order
\* (the waves of size 1 are of Goblins: 10 hit points, reward 20).
ScenarioCatalog ==
    [tower_types |-> <<ArcherTower, MageTower>>, enemy_types |-> <<Orc, Goblin>>]

\* What Game::new leaves when no enemy type is installed.
EmptyEnemyCatalog == [tower_types |-> <<ArcherTower, MageTower>>, enemy_types |-> <<>>]

----------------------------------------------------------------------------
(* Entities *)

Tower_new(position, tower_type) == [position |-> position, tower_type |-> tower_type]

Enemy_new(enemy_type) ==
    [position |-> Point_new(0, 0),
     hit_points |-> enemy_type.max_hit_points,
     enemy_type |-> enemy_type]

\* Enemy::advance
advance(enemy) ==
    [enemy EXCEPT !.position.x = @ - FMul(enemy.enemy_type.speed, time_since_last_frame)]

\* A faulty variant of apply_damage: damage scaled by a rate of fire of 2.0.
apply_damage_twice(enemy, damage) == [enemy EXCEPT !.hit_points = @ - 2 * damage]

\* Enemy::apply_damage
apply_damage(enemy, damage) == [enemy EXCEPT !.hit_points = @ - damage]

\* A faulty variant of is_alive: an enemy with 0 hit points counts as alive.
is_alive_at_zero(enemy) == enemy.hit_points >= 0

\* Enemy::is_alive
is_alive(enemy) == enemy.hit_points > 0

----------------------------------------------------------------------------
(* Construction: Game::new, GameState::new *)

GameState_new(initial_lives) ==
    /\ resources = 100
    /\ lives = initial_lives
    /\ towers = <<>>
    /\ enemies = <<>>
    /\ camera_position = Point_new(0, 0)
    /\ tower_types = <<>>
    /\ enemy_types = <<>>
    /\ event = "None"
    /\ outcome = "None"
    /\ ticks = 0
    /\ dt = 0
    /\ wave = 0
    /\ pc = "new"

Init == GameState_new(10)

\* The win/loss check is a function of (enemies, lives); to try it on lives
\* that no run from Init reaches, the game is also started with other lives.
InitLives == \E l \in (-LivesSpread .. LivesSpread) \cup {10} : GameState_new(l)

\* main, lines 214-246: the catalogs are installed before the event loop.
Configure(catalogs) ==
    /\ pc = "new"
    /\ \E c \in catalogs :
        /\ tower_types' = c.tower_types
        /\ enemy_types' = c.enemy_types
    /\ pc' = "loop"
    /\ UNCHANGED <<state, event, outcome, ticks, dt, wave>>

----------------------------------------------------------------------------
(* Key presses *)

CameraInBounds(p) ==
    /\ p.y >= 0
    /\ (IF p.x >= 0 THEN p.x ELSE - p.x) + p.y <= MaxCam * CAMERA_SPEED

MoveCamera(k, p) ==
    /\ pc = "loop"
    /\ CameraInBounds(p)
    /\ camera_position' = p
    /\ event' = k
    /\ UNCHANGED <<resources, lives, towers, enemies, tower_types, enemy_types,
                   outcome, ticks, dt, wave, pc>>

KeyW == MoveCamera("W", [camera_position EXCEPT !.y = @ + CAMERA_SPEED])

KeyA == MoveCamera("A", [camera_position EXCEPT !.x = @ - CAMERA_SPEED])

KeyS == MoveCamera("S", [camera_position EXCEPT !.y = @ - CAMERA_SPEED])

KeyD == MoveCamera("D", [camera_position EXCEPT !.x = @ + CAMERA_SPEED])

\* A faulty variant of can_afford: the test made strict.
can_afford_strict(tower_type) == resources > tower_type.cost

\* Another faulty variant of can_afford: any resources at all will do.
can_afford_any_resources(tower_type) == resources > 0

\* game.state.resources >= tower_type.cost
can_afford(tower_type) == resources >= tower_type.cost

\* A faulty variant of debit: nothing is paid.
debit_nothing(tower_type) == resources

\* game.state.resources -= tower_type.cost
debit(tower_type) == resources - tower_type.cost

\* A faulty variant of push_tower: the tower is put in front of the others.
push_tower_front(ts, tower) == <<tower>> \o ts

\* game.state.towers.push(tower)
push_tower(ts, tower) == Append(ts, tower)

\* A faulty variant of KeySpace: a placement also recentres the camera.
KeySpace_recentring ==
    /\ pc = "loop"
    /\ can_afford(tower_types[1]) => Len(towers) < MaxTowers
    /\ event' = "Space"
    /\ LET tower_type == tower_types[1]
       IN  IF can_afford(tower_type)
           THEN /\ towers' = push_tower(towers, Tower_new(camera_position, tower_type))
                /\ resources' = debit(tower_type)
                /\ camera_position' = Point_new(0, 0)
           ELSE UNCHANGED <<towers, resources, camera_position>>
    /\ UNCHANGED <<lives, enemies, tower_types, enemy_types,
                   outcome, ticks, dt, wave, pc>>

KeySpace ==
    /\ pc = "loop"
    /\ can_afford(tower_types[1]) => Len(towers) < MaxTowers
    /\ event' = "Space"
    /\ LET tower_type == tower_types[1]
       IN  IF can_afford(tower_type)
           THEN /\ towers' = push_tower(towers, Tower_new(camera_position, tower_type))
                /\ resources' = debit(tower_type)
           ELSE UNCHANGED <<towers, resources>>
    /\ UNCHANGED <<lives, enemies, camera_position, tower_types, enemy_types,
                   outcome, ticks, dt, wave, pc>>

----------------------------------------------------------------------------
(* One tick: event.update -> Game::update *)

\* The elapsed times (UpdateArgs.dt) an update event may carry.
DtInputs == {k * time_since_last_frame : k \in 1 .. MaxDt}

\* A faulty variant of UpdateEvent: no update is handled once the player has won.
UpdateEvent_halting_on_win(max_ticks) ==
    /\ pc = "loop"
    /\ outcome # "Win"
    /\ ticks < max_ticks
    /\ ticks' = ticks + 1
    /\ \E d \in DtInputs : dt' = d
    /\ pc' = "spawn"
    /\ event' = "Update"
    /\ UNCHANGED <<state, tower_types, enemy_types, outcome, wave>>

\* main, lines 326-329: an update event calls game.update(); the closure
\* ignores the event's UpdateArgs.
UpdateEvent(max_ticks) ==
    /\ pc = "loop"
    /\ ticks < max_ticks
    /\ ticks' = ticks + 1
    /\ \E d \in DtInputs : dt' = d
    /\ pc' = "spawn"
    /\ event' = "Update"
    /\ UNCHANGED <<state, tower_types, enemy_types, outcome, wave>>

\* A faulty variant of wave_size: the + 1 left out.
wave_size_without_one(n) == n \div 10

\* A faulty variant of wave_size: one enemy per tick, whatever the live count.
wave_size_one(n) == 1

\* let wave = self.enemies.len() / 10 + 1
wave_size(n) == n \div 10 + 1

\* A faulty variant of wave_type: the catalog's first entry, whatever the wave.
wave_type_first(types, w) == types[1]

\* enemy_types[wave % enemy_types.len()] (Rust indexes from 0, TLA+ from 1)
wave_type(types, w) == types[(w % Len(types)) + 1]

\* for _ in 0..wave { self.enemies.push(Enemy::new(...)) }
RECURSIVE push_wave(_, _, _)
push_wave(es, enemy_type, count) ==
    IF count = 0 THEN es
    ELSE push_wave(Append(es, Enemy_new(enemy_type)), enemy_type, count - 1)

\* A faulty variant of Spawn: the enemies are not moved in the tick of a spawn.
Spawn_skipping_movement ==
    /\ pc = "spawn"
    /\ Len(enemy_types) # 0
    /\ wave' = wave_size(Len(enemies))
    /\ enemies' = push_wave(enemies, wave_type(enemy_types, wave'), wave')
    /\ pc' = "combat"
    /\ UNCHANGED <<resources, lives, towers, camera_position, tower_types,
                   enemy_types, event, outcome, ticks, dt>>

\* GameState::update, lines 91-96: the spawn loop.
Spawn ==
    /\ pc = "spawn"
    /\ Len(enemy_types) # 0
    /\ wave' = wave_size(Len(enemies))
    /\ enemies' = push_wave(enemies, wave_type(enemy_types, wave'), wave')
    /\ pc' = "advance"
    /\ UNCHANGED <<resources, lives, towers, camera_position, tower_types,
                   enemy_types, event, outcome, ticks, dt>>

\* GameState::update, line 95 with an empty catalog: wave % 0 panics
\* ("attempt to calculate the remainder with a divisor of zero").
SpawnPanic ==
    /\ pc = "spawn"
    /\ Len(enemy_types) = 0
    /\ pc' = "panicked"
    /\ UNCHANGED <<state, tower_types, enemy_types, event, outcome, ticks, dt, wave>>

\* GameState::update, lines 98-101: every enemy advances.
Advance ==
    /\ pc = "advance"
    /\ enemies' = [i \in DOMAIN enemies |-> advance(enemies[i])]
    /\ pc' = "combat"
    /\ UNCHANGED <<resources, lives, towers, camera_position, tower_types,
                   enemy_types, event, outcome, ticks, dt, wave>>

\* The inner loop of combat: one tower against every enemy, in order.
tower_fires(tower, es) ==
    [i \in DOMAIN es |->
        IF in_range(tower, es[i])
        THEN apply_damage(es[i], tower.tower_type.damage)
        ELSE es[i]]

\* The outer loop of combat: the towers in order.
RECURSIVE combat(_, _)
combat(ts, es) ==
    IF ts = <<>> THEN es ELSE combat(Tail(ts), tower_fires(Head(ts), es))

\* Game::update, lines 31-38.
Combat ==
    /\ pc = "combat"
    /\ enemies' = combat(towers, enemies)
    /\ pc' = "settle"
    /\ UNCHANGED <<resources, lives, towers, camera_position, tower_types,
                   enemy_types, event, outcome, ticks, dt, wave>>

\* .filter(|enemy| !enemy.is_alive()).map(|enemy| enemy.enemy_type.reward).sum()
RECURSIVE total_reward(_)
total_reward(es) ==
    IF es = <<>> THEN 0
    ELSE (IF is_alive(Head(es)) THEN 0 ELSE Head(es).enemy_type.reward)
         + total_reward(Tail(es))

\* A faulty variant of retain_alive: the defeated stay in the collection.
retain_all(es) == es

\* self.state.enemies.retain(|enemy| enemy.is_alive())
retain_alive(es) == SelectSeq(es, is_alive)

\* A faulty variant of lives_after_settle: a life is lost with every settlement.
lives_after_settle_losing == lives - 1

\* Game::update never assigns lives.
lives_after_settle == lives

\* Game::update, lines 40-49.
Settle ==
    /\ pc = "settle"
    /\ resources' = resources + total_reward(enemies)
    /\ enemies' = retain_alive(enemies)
    /\ lives' = lives_after_settle
    /\ pc' = "evaluate"
    /\ UNCHANGED <<towers, camera_position, tower_types, enemy_types, event,
                   outcome, ticks, dt, wave>>

\* A faulty variant of evaluate: the loss test made before the win test.
evaluate_loss_first(es, l) ==
    IF l <= 0 THEN "Loss" ELSE IF es = <<>> THEN "Win" ELSE "Ongoing"

\* Game::update, lines 51-56: "You win!", "You lose!" or nothing printed.
evaluate(es, l) ==
    IF es = <<>> THEN "Win" ELSE IF l <= 0 THEN "Loss" ELSE "Ongoing"

Evaluate ==
    /\ pc = "evaluate"
    /\ outcome' = evaluate(enemies, lives)
    /\ dt' = 0
    /\ pc' = "loop"
    /\ UNCHANGED <<state, tower_types, enemy_types, event, ticks, wave>>

----------------------------------------------------------------------------
(* Specifications *)

Steps == Spawn \/ Advance \/ Combat \/ Settle \/ Evaluate

Keys == KeyW \/ KeyA \/ KeyS \/ KeyD \/ KeySpace

Next == Configure(Catalogs) \/ Keys \/ UpdateEvent(MaxTicks) \/ Steps

\* The game as main runs it, with a non-empty enemy catalog.
Spec == Init /\ [][Next]_vars

NextLong == Configure(Catalogs) \/ KeySpace \/ UpdateEvent(MaxLongTicks) \/ Steps

\* The runs of Spec in which the camera is never moved, followed further.
SpecLong == Init /\ [][NextLong]_vars

NextLives == Configure(Catalogs) \/ KeySpace \/ UpdateEvent(MaxTicks) \/ Steps

\* The same runs from any of the initial lives of InitLives.
SpecLives == InitLives /\ [][NextLives]_vars

NextCfg ==
    \/ Configure(Catalogs \cup {EmptyEnemyCatalog})
    \/ KeySpace
    \/ UpdateEvent(MaxTicks)
    \/ Steps
    \/ SpawnPanic

\* The game configured with any catalog, the empty enemy catalog included.
SpecCfg == Init /\ [][NextCfg]_vars

\* The Space key pressed between the first and the second update event.
ScenarioPlace == ticks = 1 /\ KeySpace

NextScenario ==
    \/ Configure({ScenarioCatalog})
    \/ ScenarioPlace
    \/ UpdateEvent(MaxTicks)
    \/ Steps

\* The game with Archer Towers against Goblins, towers placed (if any) right
\* after the first tick.
SpecScenario == Init /\ [][NextScenario]_vars

----------------------------------------------------------------------------
(* Claims C1, C2: tower placement (the Space key) *)

\* A step of the Space handler: the only step from the event loop that ends
\* with event = "Space".  (A blocked press right after another press of
\* Space changes nothing at all and is a stuttering step.)
SpaceStep == pc = "loop" /\ pc' = "loop" /\ event' = "Space"

\* C1: a placement succeeds exactly when resources >= cost of the chosen
\* tower type (tower_types[0] in the code); a successful placement appends
\* exactly one tower, at the camera position of that moment and of that
\* type, and lowers resources by exactly cost.
C1_PlacementSucceedsIffAffordable ==
    [][SpaceStep =>
        LET chosen == tower_types[1]
        IN  IF resources >= chosen.cost
            THEN /\ towers' = Append(towers, [position |-> camera_position,
                                              tower_type |-> chosen])
                 /\ resources' = resources - chosen.cost
            ELSE /\ towers' = towers
                 /\ resources' = resources]_vars

\* Two placements were made before any tick, the second with resources
\* equal to the cost, and away from the origin.
C1_Witness ==
    /\ pc = "loop"
    /\ ticks = 0
    /\ event = "Space"
    /\ Len(towers) = 2
    /\ resources = 0
    /\ towers[1].position = Point_new(0, 0)
    /\ towers[2].position = camera_position
    /\ camera_position # Point_new(0, 0)
    /\ towers[2].tower_type = tower_types[1]

----------------------------------------------------------------------------
(* Claims C3, C4: the spawn step *)

SpawnStep == pc = "spawn" /\ pc' = "advance"

\* C3: for every live enemy count n at the start of a tick, the spawn step
\* appends exactly floor(n/10)+1 new enemies, each with hit_points equal to
\* the max_hit_points of its type, and leaves the n existing enemies in place.
C3_SpawnCount ==
    [][SpawnStep =>
        LET n == Len(enemies)
        IN  /\ Len(enemies') = n + (n \div 10) + 1
            /\ \A i \in 1 .. n : enemies'[i] = enemies[i]
            /\ \A i \in (n + 1) .. Len(enemies') :
                  /\ enemies'[i].enemy_type \in {enemy_types[k] : k \in DOMAIN enemy_types}
                  /\ enemies'[i].hit_points = enemies'[i].enemy_type.max_hit_points]_vars

\* The spawn step of a tick that started with 10 live enemies has run: two
\* enemies were appended, at full hit points, behind the 10.
C3_Witness ==
    /\ pc = "advance"
    /\ Len(enemies) = 12
    /\ enemies[10].position.x < 0
    /\ \A i \in {11, 12} :
          /\ enemies[i].position = Point_new(0, 0)
          /\ enemies[i].hit_points = enemies[i].enemy_type.max_hit_points

\* C4: all enemies spawned in one tick are of the catalog entry at index
\* (wave mod catalog length), wave = floor(n/10)+1 for the n live enemies at
\* the start of the tick, and every one is created at the origin (0, 0),
\* before movement is applied.
C4_SpawnTypeAndOrigin ==
    [][SpawnStep =>
        LET n    == Len(enemies)
            w    == (n \div 10) + 1
            idx  == w % Len(enemy_types)
        IN  \A i \in (n + 1) .. Len(enemies') :
               /\ enemies'[i].enemy_type = enemy_types[idx + 1]
               /\ enemies'[i].position = [x |-> 0, y |-> 0]]_vars

\* With a catalog of two types, the waves of size 1 were of the second type
\* (index 1) and the wave of size 2 is of the first (index 0).
C4_Witness ==
    /\ pc = "advance"
    /\ Len(enemy_types) = 2
    /\ Len(enemies) = 12
    /\ enemies[1].enemy_type = enemy_types[2]
    /\ enemies[11].enemy_type = enemy_types[1]
    /\ enemies[12].enemy_type = enemy_types[1]
    /\ enemies[11].position = Point_new(0, 0)
    /\ enemies[12].position = Point_new(0, 0)

----------------------------------------------------------------------------
(* Claims C5, C6: combat *)

CombatStep == pc = "combat" /\ pc' = "settle"

\* dx^2 + dy^2 between a tower and an enemy, and the tower's range squared.
C5_DistSq(tower, enemy) ==
    (tower.position.x - enemy.position.x) * (tower.position.x - enemy.position.x)
    + (tower.position.y - enemy.position.y) * (tower.position.y - enemy.position.y)

C5_RangeSq(tower) == tower.tower_type.range * tower.tower_type.range

\* The sum of the damage of the towers ts[1..k] whose distance to the enemy
\* is less than their range.
RECURSIVE C5_DamageInRange(_, _, _)
C5_DamageInRange(ts, k, enemy) ==
    IF k = 0 THEN 0
    ELSE (IF C5_DistSq(ts[k], enemy) < C5_RangeSq(ts[k])
          THEN ts[k].tower_type.damage ELSE 0)
         + C5_DamageInRange(ts, k - 1, enemy)

C5_Reverse(seq) == [i \in 1 .. Len(seq) |-> seq[Len(seq) + 1 - i]]

\* C5: one combat resolution lowers every enemy's hit_points by exactly the
\* sum of the damage of all towers whose distance to it is less than their
\* range (rate_of_fire plays no part); the result is the same when towers and
\* enemies are iterated in the opposite order, and a second resolution of the
\* unchanged layout subtracts the same amount again.
C5_CombatDamageIsSumOfInRangeTowers ==
    [][CombatStep =>
        /\ Len(enemies') = Len(enemies)
        /\ \A i \in 1 .. Len(enemies) :
              enemies'[i] =
                  [enemies[i] EXCEPT !.hit_points =
                       @ - C5_DamageInRange(towers, Len(towers), enemies[i])]
        /\ combat(C5_Reverse(towers), C5_Reverse(enemies)) = C5_Reverse(enemies')
        /\ \A i \in 1 .. Len(enemies) :
              combat(towers, enemies')[i].hit_points =
                  enemies[i].hit_points
                  - 2 * C5_DamageInRange(towers, Len(towers), enemies[i])]_vars

\* Combat has run with two towers of a rate of fire other than 1.0: a newly
\* spawned enemy (one step from the origin, within range of both) has taken
\* the damage of both, and an older enemy is within range of one tower only.
C5_Witness ==
    /\ pc = "settle"
    /\ Len(towers) = 2
    /\ towers[1].tower_type.rate_of_fire # F(1)
    /\ \E i, j \in 1 .. Len(enemies) :
          /\ \A k \in {1, 2} : C5_DistSq(towers[k], enemies[i]) < C5_RangeSq(towers[k])
          /\ enemies[i].hit_points =
                 enemies[i].enemy_type.max_hit_points - 2 * towers[1].tower_type.damage
          /\ C5_DistSq(towers[1], enemies[j]) >= C5_RangeSq(towers[1])
          /\ C5_DistSq(towers[2], enemies[j]) < C5_RangeSq(towers[2])

\* C6: the range test is strict: an enemy at a distance from every tower that
\* is equal to or larger than that tower's range takes no damage, and an
\* enemy at a smaller distance from a tower takes (at least) that tower's
\* full damage.
C6_RangeTestIsStrict ==
    [][CombatStep =>
        \A i \in 1 .. Len(enemies) :
           /\ (\A k \in 1 .. Len(towers) :
                   C5_DistSq(towers[k], enemies[i]) >= C5_RangeSq(towers[k]))
                 => enemies'[i].hit_points = enemies[i].hit_points
           /\ \A k \in 1 .. Len(towers) :
                 C5_DistSq(towers[k], enemies[i]) < C5_RangeSq(towers[k])
                 => enemies'[i].hit_points
                        <= enemies[i].hit_points - towers[k].tower_type.damage]_vars

\* Combat has run with one tower and an enemy exactly at its range, which
\* still has all its hit points, and another tick's enemy was hit before.
C6_Witness ==
    /\ pc = "settle"
    /\ Len(towers) = 1
    /\ \E i \in 1 .. Len(enemies) :
          /\ C5_DistSq(towers[1], enemies[i]) = C5_RangeSq(towers[1])
          /\ enemies[i].hit_points = enemies[i].enemy_type.max_hit_points
    /\ \E j \in 1 .. Len(enemies) :
          enemies[j].hit_points < enemies[j].enemy_type.max_hit_points

----------------------------------------------------------------------------
(* Claim C7: settlement *)

SettleStep == pc = "settle" /\ pc' = "evaluate"

\* The enemies of es with hit_points > 0, in their order.
RECURSIVE C7_Survivors(_)
C7_Survivors(es) ==
    IF es = <<>> THEN <<>>
    ELSE IF Head(es).hit_points <= 0 THEN C7_Survivors(Tail(es))
         ELSE <<Head(es)>> \o C7_Survivors(Tail(es))

\* The sum of the rewards of the enemies es[1..k] with hit_points <= 0.
RECURSIVE C7_RewardOfDefeated(_, _)
C7_RewardOfDefeated(es, k) ==
    IF k = 0 THEN 0
    ELSE (IF es[k].hit_points <= 0 THEN es[k].enemy_type.reward ELSE 0)
         + C7_RewardOfDefeated(es, k - 1)

\* C7: settlement removes exactly the enemies with hit_points <= 0, in the
\* tick in which combat brought them there, keeps every other enemy unchanged
\* and in its relative order, and raises resources by exactly the sum of the
\* rewards of the removed enemies.
C7_SettlementRemovesAndRewardsDefeated ==
    [][SettleStep =>
        /\ enemies' = C7_Survivors(enemies)
        /\ resources' = resources + C7_RewardOfDefeated(enemies, Len(enemies))
        /\ \A i \in 1 .. Len(enemies') : enemies'[i].hit_points > 0]_vars

\* Settlement has removed one enemy from the middle of the collection: two
\* towers were paid, one reward was credited, and the survivors are two older
\* enemies and one younger than the removed one (one step apart per tick).
C7_Witness ==
    /\ pc = "evaluate"
    /\ ticks = 4
    /\ Len(towers) = 2
    /\ Len(enemies) = 3
    /\ resources = 100 - 2 * tower_types[1].cost + enemy_types[1].reward
    /\ enemies[1].position.x = - 4 * CAMERA_SPEED
    /\ enemies[2].position.x = - 3 * CAMERA_SPEED
    /\ enemies[3].position.x = - CAMERA_SPEED

----------------------------------------------------------------------------
(* Claims C8, C9: the win/loss check and lives *)

\* C8: the outcome evaluated at the end of a tick is Win exactly when the
\* enemy collection is empty after settlement, Loss exactly when it is
\* non-empty and lives <= 0, and Ongoing otherwise; with no enemies and
\* lives <= 0 together it is Win.  (Between ticks nothing changes enemies,
\* lives or the outcome, so the outcome of the last tick is read in the
\* event loop.)
C8_OutcomeOfTick ==
    (pc = "loop" /\ ticks > 0) =>
        /\ (outcome = "Win") <=> (Len(enemies) = 0)
        /\ (outcome = "Loss") <=> (Len(enemies) > 0 /\ lives <= 0)
        /\ (outcome = "Ongoing") <=> (Len(enemies) > 0 /\ lives > 0)
        /\ (Len(enemies) = 0 /\ lives <= 0) => outcome = "Win"

\* A tick ended with no enemies left and lives <= 0: the outcome is Win.
C8_Witness ==
    /\ pc = "loop"
    /\ ticks > 0
    /\ enemies = <<>>
    /\ lives <= 0
    /\ outcome = "Win"

\* C9: no operation ever changes lives: lives is 10 in every reachable state
\* and the Loss outcome is never signalled.
C9_LivesNeverChange == lives = 10 /\ outcome # "Loss"

\* Ticks, placements and camera moves have all happened, enemies were
\* removed and enemies are left.
C9_Witness ==
    /\ pc = "loop"
    /\ ticks >= 3
    /\ Len(towers) = 2
    /\ camera_position # Point_new(0, 0)
    /\ enemies # <<>>
    /\ Len(enemies) < ticks
    /\ lives = 10

----------------------------------------------------------------------------
(* Claim C10: the empty enemy catalog *)

\* C10: an empty enemy catalog is rejected at game start, so the program
\* never enters a tick (and its spawn step) with an empty catalog.
C10_EmptyCatalogNeverReachesSpawn ==
    pc \in {"spawn", "advance", "combat", "settle", "evaluate", "panicked"}
        => enemy_types # <<>>

----------------------------------------------------------------------------
(* Movement *)

\* A step of the movement loop of GameState::update.
AdvanceStep == pc = "advance" /\ pc' = "combat"

\* C11: the movement step moves every enemy by exactly speed * elapsed time
\* towards smaller x, for whatever positive elapsed time the update event
\* supplies (dt), and leaves y at the spawn point's y.  The code moves every
\* enemy by speed * 0.01 whatever the event's elapsed time, so this fails for
\* an update event that carries any other dt.
C11_MovementFollowsElapsedTime ==
    [][AdvanceStep =>
        /\ Len(enemies') = Len(enemies)
        /\ \A i \in 1 .. Len(enemies) :
              /\ enemies'[i].position.x
                    = enemies[i].position.x - FMul(enemies[i].enemy_type.speed, dt)
              /\ enemies'[i].position.y = enemies[i].position.y
              /\ enemies'[i].position.y = Enemy_new(enemies[i].enemy_type).position.y
      ]_vars

----------------------------------------------------------------------------
(* Claim C12: the end-to-end scenario *)

\* The hit points of the enemies, in order.
C12_HitPoints == [i \in DOMAIN enemies |-> enemies[i].hit_points]

\* The scenario's run: exactly one tower, placed after the first tick.
C12_OneTower == Len(towers) = 1

\* C12 as stated: from resources 100, lives 10 and no enemies, the spawn step
\* yields exactly 1 enemy of 10 hit points; a tower of damage 5 and range
\* 100 is placed at distance 0 from it; the first combat after that leaves
\* the enemy at 5, the second at 0; settlement then removes it and leaves
\* resources = 100 + reward, and evaluation gives Win.
C12_ScenarioAsStated ==
    /\ (ticks = 0) => (resources = 100 /\ lives = 10 /\ enemies = <<>>)
    /\ (ticks = 1 /\ pc = "advance") => C12_HitPoints = <<10>>
    /\ (ticks = 1 /\ pc = "loop" /\ C12_OneTower) =>
          /\ towers[1].tower_type.damage = 5
          /\ towers[1].tower_type.range = F(100)
          /\ distance_to_sq(towers[1].position, enemies[1].position) = 0
    /\ (ticks = 2 /\ pc = "settle" /\ C12_OneTower) => enemies[1].hit_points = 5
    /\ (ticks = 3 /\ pc = "settle" /\ C12_OneTower) => enemies[1].hit_points = 0
    /\ (ticks = 3 /\ pc = "evaluate" /\ C12_OneTower) =>
          /\ enemies = <<>>
          /\ resources = 100 + enemy_types[2].reward
    /\ (ticks = 3 /\ pc = "loop" /\ C12_OneTower) => outcome = "Win"

\* C12, amended: the first tick spawns exactly 1 enemy of 10 hit points and
\* moves it by 0.02; the tower placed then (damage 5, range 100, at the
\* camera's origin, 0.02 away from the enemy) costs 50; every later tick
\* spawns one more enemy before its combat, so the second tick leaves two
\* enemies at 5 hit points and the third leaves the first two at 0 and a
\* third at 5; settlement removes the first two and leaves resources =
\* 100 - cost + 2 * reward, and evaluation finds the third enemy alive: no Win.
C12_ScenarioAsRun ==
    /\ (ticks = 0) => (resources = 100 /\ lives = 10 /\ enemies = <<>>)
    /\ (ticks = 1 /\ pc = "advance") => C12_HitPoints = <<10>>
    /\ (ticks = 1 /\ pc = "loop" /\ C12_OneTower) =>
          /\ towers[1].tower_type.damage = 5
          /\ towers[1].tower_type.range = F(100)
          /\ towers[1].position = Point_new(0, 0)
          /\ enemies[1].position = Point_new(-FMul(F(2), time_since_last_frame), 0)
          /\ resources = 100 - tower_types[1].cost
    /\ (ticks = 2 /\ pc = "settle" /\ C12_OneTower) => C12_HitPoints = <<5, 5>>
    /\ (ticks = 3 /\ pc = "settle" /\ C12_OneTower) => C12_HitPoints = <<0, 0, 5>>
    /\ (ticks = 3 /\ pc = "evaluate" /\ C12_OneTower) =>
          /\ C12_HitPoints = <<5>>
          /\ resources = 100 - tower_types[1].cost + 2 * enemy_types[2].reward
    /\ (ticks = 3 /\ pc = "loop" /\ C12_OneTower) => outcome = "Ongoing"

\* The scenario has run to the end of its third tick.
C12_Witness ==
    /\ ticks = 3 /\ pc = "loop" /\ C12_OneTower
    /\ resources = 90
    /\ C12_HitPoints = <<5>>
    /\ outcome = "Ongoing"

----------------------------------------------------------------------------
(* Claim C13: the order of the steps of a tick *)

\* The step that follows each step of Game::update.
C13_After(p) ==
    CASE p = "spawn"    -> "advance"
      [] p = "advance"  -> "combat"
      [] p = "combat"   -> "settle"
      [] p = "settle"   -> "evaluate"
      [] p = "evaluate" -> "loop"

\* The enemies pushed by the spawn step of the current tick: the last wave
\* of the collection, as long as settlement has not run.
C13_Spawned == (Len(enemies) - wave + 1) .. Len(enemies)

\* C13: a tick runs spawn, movement, combat, settlement and evaluation in
\* that order and to completion, no command in between; the enemies spawned
\* in a tick are moved in it (from the origin, by one step of their speed)
\* and take the damage of the towers in range in it; settlement removes and
\* rewards every defeated enemy, those spawned in this tick included; and
\* the outcome is evaluated on the collection settlement left.
C13_TickOrder ==
    [][/\ (pc = "loop" /\ pc' # "loop") => (pc' = "spawn" /\ ticks' = ticks + 1)
       /\ (pc \notin {"new", "loop"}) =>
             /\ pc' = C13_After(pc)
             /\ UNCHANGED <<towers, camera_position, event, ticks>>
       /\ AdvanceStep =>
             \A i \in C13_Spawned :
                /\ enemies[i].position = Point_new(0, 0)
                /\ enemies'[i].position =
                      Point_new(- FMul(enemies[i].enemy_type.speed,
                                       time_since_last_frame), 0)
       /\ CombatStep =>
             \A i \in C13_Spawned :
                /\ enemies[i].hit_points = enemies[i].enemy_type.max_hit_points
                /\ enemies'[i].hit_points =
                      enemies[i].hit_points
                      - C5_DamageInRange(towers, Len(towers), enemies[i])
       /\ SettleStep =>
             /\ \A i \in 1 .. Len(enemies') : enemies'[i].hit_points > 0
             /\ Len(enemies) - Len(enemies')
                   = Cardinality({i \in 1 .. Len(enemies) : enemies[i].hit_points <= 0})
       /\ (pc = "evaluate") =>
             /\ enemies' = enemies
             /\ \A i \in 1 .. Len(enemies) : enemies[i].hit_points > 0
             /\ (outcome' = "Win") <=> (enemies = <<>>)
      ]_vars

\* The first tick, with a tower standing: the only enemy there has been was
\* spawned, moved, hit, removed and rewarded within the tick, and the tick
\* ended in Win on the emptied collection.
C13_Witness ==
    /\ pc = "loop"
    /\ ticks = 1
    /\ Len(towers) = 1
    /\ wave = 1
    /\ enemies = <<>>
    /\ resources = 100 - tower_types[1].cost + enemy_types[2].reward
    /\ outcome = "Win"

----------------------------------------------------------------------------
(* Claim C14: resources stay non-negative *)

\* C14: with the non-negative costs and rewards of the catalogs, resources
\* are >= 0 before and after every step of ticks, placements and camera
\* moves, and the only step that lowers resources is a step of the Space
\* handler.
C14_ResourcesNeverNegative ==
    [][/\ resources >= 0
       /\ resources' >= 0
       /\ (resources' < resources) => (SpaceStep /\ Len(towers') = Len(towers) + 1)
       /\ (\A i \in 1 .. Len(tower_types') : tower_types'[i].cost >= 0)
       /\ (\A i \in 1 .. Len(enemy_types') : enemy_types'[i].reward >= 0)
      ]_vars

\* A tower was bought before the first tick, the tick credited a reward, and
\* a press of Space after it was blocked: resources are below the cost, and
\* what they were after the tick.
C14_Witness ==
    /\ pc = "loop"
    /\ ticks = 1
    /\ event = "Space"
    /\ Len(towers) = 1
    /\ ~ can_afford(tower_types[1])
    /\ resources = 100 - tower_types[1].cost + enemy_types[2].reward

----------------------------------------------------------------------------
(* Claim C15: the size of successive waves *)

\* C15 as stated: the wave spawned in a tick is never smaller than the wave
\* spawned in the tick before (wave is 0 before the first tick), whatever
\* settlement removed in between.
C15_WaveSizeNeverDecreases ==
    [][SpawnStep => wave' >= wave]_vars

\* C15, amended: the wave of a tick is floor(n / 10) + 1 for the n enemies
\* alive at the start of that tick and nothing else; it is smaller than the
\* wave of the tick before exactly when kills have brought n below
\* 10 * (previous wave - 1), the least live count that gives the previous
\* wave's size.
C15_WaveSizeFollowsLiveCount ==
    [][SpawnStep =>
        /\ wave' = (Len(enemies) \div 10) + 1
        /\ Len(enemies') = Len(enemies) + wave'
        /\ (wave' < wave) <=> (Len(enemies) < 10 * (wave - 1))]_vars

\* Ten enemies were let in, two towers were placed, the eleventh tick
\* spawned a wave of 2 and killed all twelve enemies (ten Orcs and two
\* Goblins rewarded), and the twelfth tick has spawned a wave of 1.
C15_Witness ==
    /\ pc = "advance"
    /\ ticks = 12
    /\ wave = 1
    /\ Len(enemies) = 1
    /\ Len(towers) = 2
    /\ outcome = "Win"
    /\ resources = 100 - 2 * ArcherTower.cost + 10 * Orc.reward + 2 * Goblin.reward

----------------------------------------------------------------------------
(* Claim C16: what a placement leaves alone *)

\* C16: a step of the Space handler, whether it places a tower or is
\* blocked, changes nothing but towers and resources: the enemies (their
\* number, positions and hit points), lives and the camera position are the
\* same after it as before it.
C16_PlacementFrame ==
    [][SpaceStep =>
        /\ Len(enemies') = Len(enemies)
        /\ \A i \in 1 .. Len(enemies) :
              /\ enemies'[i].position = enemies[i].position
              /\ enemies'[i].hit_points = enemies[i].hit_points
        /\ UNCHANGED <<enemies, lives, camera_position>>]_vars

\* A tower has just been placed away from the origin, where the camera
\* still is, with enemies on the field, one of them hurt.
C16_Witness ==
    /\ event = "Space"
    /\ towers # <<>>
    /\ towers[Len(towers)].position = camera_position
    /\ camera_position # Point_new(0, 0)
    /\ resources < tower_types[1].cost
    /\ \E i \in 1 .. Len(enemies) :
          enemies[i].hit_points < enemies[i].enemy_type.max_hit_points

----------------------------------------------------------------------------
(* Claim C17: towers are permanent *)

\* C17: no step removes or alters a tower: after every step of a tick, a
\* placement or a camera move, the tower collection is the collection of
\* before, tower for tower with the same position and type, with at most
\* one tower appended at its end.  (Step by step, so the collection of a
\* state extends that of every earlier state.)
C17_TowersOnlyAppended ==
    [][/\ Len(towers') \in {Len(towers), Len(towers) + 1}
       /\ \A i \in 1 .. Len(towers) :
             /\ towers'[i].position = towers[i].position
             /\ towers'[i].tower_type = towers[i].tower_type
       /\ SubSeq(towers', 1, Len(towers)) = towers
       /\ (Len(towers') > Len(towers)) => SpaceStep]_vars

\* Two towers stand at different places, the camera has moved on from both,
\* and ticks have run since the second was placed.
C17_Witness ==
    /\ pc = "loop"
    /\ event = "Update"
    /\ ticks >= 2
    /\ Len(towers) = 2
    /\ towers[1].position # towers[2].position
    /\ camera_position \notin {towers[1].position, towers[2].position}

----------------------------------------------------------------------------
(* Claim C18: hit points between ticks *)

\* C18: with the positive max_hit_points and non-negative damage of the
\* catalogs, in every state of the event loop (after every completed tick,
\* where commands and the renderer run) each enemy has 0 < hit_points <=
\* max_hit_points of its type; and no step raises the hit points of an
\* enemy: a spawn keeps the enemies there were and appends full-health ones,
\* settlement keeps the survivors as they are, and every other step keeps
\* the collection's length and order and no enemy's hit points go up.
C18_HitPointsBoundedAndNonIncreasing ==
    [][/\ (pc' = "loop") =>
             \A i \in 1 .. Len(enemies') :
                /\ 0 < enemies'[i].hit_points
                /\ enemies'[i].hit_points <= enemies'[i].enemy_type.max_hit_points
       /\ \A i \in 1 .. Len(enemies') :
             enemies'[i].hit_points <= enemies'[i].enemy_type.max_hit_points
       /\ SpawnStep =>
             /\ SubSeq(enemies', 1, Len(enemies)) = enemies
             /\ \A i \in (Len(enemies) + 1) .. Len(enemies') :
                   enemies'[i].hit_points = enemies'[i].enemy_type.max_hit_points
       /\ SettleStep => enemies' = C7_Survivors(enemies)
       /\ (~ SpawnStep /\ ~ SettleStep) =>
             /\ Len(enemies') = Len(enemies)
             /\ \A i \in 1 .. Len(enemies) :
                   /\ enemies'[i].hit_points <= enemies[i].hit_points
                   /\ enemies'[i].enemy_type = enemies[i].enemy_type
       /\ \A c \in Catalogs :
             /\ \A i \in 1 .. Len(c.enemy_types) : c.enemy_types[i].max_hit_points > 0
             /\ \A i \in 1 .. Len(c.tower_types) : c.tower_types[i].damage >= 0
      ]_vars

\* Between two ticks, after enemies were defeated and removed: an enemy that
\* was hit and survived is on the field.
C18_Witness ==
    /\ pc = "loop"
    /\ ticks >= 2
    /\ 0 < Len(enemies)
    /\ Len(enemies) < ticks
    /\ \E i \in 1 .. Len(enemies) :
          /\ 0 < enemies[i].hit_points
          /\ enemies[i].hit_points < enemies[i].enemy_type.max_hit_points

----------------------------------------------------------------------------
(* Claim C19: what a Win takes *)

\* The step of the win/loss check.
EvaluateStep == pc = "evaluate" /\ pc' = "loop"

\* C19: every tick spawns at least one full-health enemy before its outcome
\* is evaluated, and a tick signals Win only on an emptied collection, so
\* only if combat left every enemy of the tick, those just spawned included,
\* with no hit points: each enemy spawned in a tick that ends in Win took
\* from the towers in range a total damage of at least its max_hit_points.
\* In particular Win is signalled in no state in which there is no tower.
C19_WinNeedsTheNewWaveKilled ==
    [][/\ SpawnStep =>
             /\ wave' >= 1
             /\ Len(enemies') >= 1
             /\ enemies'[Len(enemies')].hit_points
                    = enemies'[Len(enemies')].enemy_type.max_hit_points
       /\ (CombatStep /\ retain_alive(enemies') = <<>>) =>
             \A i \in C13_Spawned :
                C5_DamageInRange(towers, Len(towers), enemies[i])
                    >= enemies[i].enemy_type.max_hit_points
       /\ (SettleStep /\ enemies' = <<>>) =>
             \A i \in 1 .. Len(enemies) : enemies[i].hit_points <= 0
       /\ (EvaluateStep /\ outcome' = "Win") => (enemies = <<>> /\ towers # <<>>)
       /\ (EvaluateStep /\ towers = <<>>) => (outcome' # "Win" /\ enemies # <<>>)
       /\ (outcome' = "Win") => towers' # <<>>
      ]_vars

\* A third tick has ended in Win with one tower placed away from the origin.
C19_Witness ==
    /\ pc = "loop"
    /\ ticks = 3
    /\ outcome = "Win"
    /\ Len(towers) = 1
    /\ towers[1].position # Point_new(0, 0)
    /\ enemies = <<>>

----------------------------------------------------------------------------
(* Claim C20: the game goes on after a Win *)

\* C20: a Win does not stop the event loop: in the loop after a tick that
\* signalled Win the next update event is handled like any other (as long
\* as the run has update events left), the tick it starts begins with no
\* live enemy, and its spawn step pushes a wave of exactly 1 enemy.
C20_WinDoesNotHalt ==
    /\ (pc = "loop" /\ outcome = "Win") =>
          /\ enemies = <<>>
          /\ (ticks < MaxTicks) => ENABLED UpdateEvent(MaxTicks)
    /\ (pc = "spawn" /\ outcome = "Win") => enemies = <<>>
    /\ (pc = "advance" /\ outcome = "Win") =>
          /\ wave = 1
          /\ Len(enemies) = 1
          /\ enemies[1].hit_points = enemies[1].enemy_type.max_hit_points

\* Two ticks have run with one tower, bought before the first, and both
\* rewards were credited: the first tick ended in Win, the second tick was
\* run all the same and ended in Win again.
C20_Witness ==
    /\ pc = "loop"
    /\ ticks = 2
    /\ outcome = "Win"
    /\ Len(towers) = 1
    /\ resources = 100 - tower_types[1].cost + 2 * enemy_types[2].reward

============================================================================
